---- MODULE Spec2Model ----
(***************************************************************************)
(* Model of scripts/tool_context_dump.py: the context-pack generator.      *)
(* Texts are strings, as in the source; a path is a "/"-separated string.  *)
(* The pure helpers of the script are operators, the runs of               *)
(* extract_text_sections, collect_local_dependencies and                   *)
(* generate_context_pack are state machines over the variables below.      *)
(***************************************************************************)
EXTENDS Integers, Sequences, FiniteSets, TLC

VARIABLES
    xPath,      \* extract_text_sections: path of the documentation file
    xText,      \* extract_text_sections: its text
    xCtx,       \* context_lines
    xMax,       \* max_sections
    xPatterns,  \* the patterns of the target
    xPc,        \* "ready" | "done" | "idle"
    xResult,    \* the returned list of (label, start_line, end_line, content)
    disk,       \* the file system: absolute path of each file -> its text
    output_path,\* the absolute path the context pack is written to
    dMatches,   \* collect_local_dependencies: group 1 of each finditer match
    dIdx,       \* the match the loop is at
    dAcc,       \* the sets local and external, and the resolver's calls
    dPc,        \* "loop" | "done" | "idle"
    dResult,    \* the returned (sorted(local), sorted(external))
    pArgs,      \* run: the parsed command line
    pPc,        \* "ready" | "done" | "error" | "idle"
    pRun,       \* the number of runs of the tool so far
    pPack,      \* what the last run of generate_context_pack discovered
    pWritten,   \* the text each run wrote to output_path, in order
    pOutcome,   \* how the last run ended: exit status, printed lines, exception
    pEffects,   \* the file-system calls of the last run, in order
    rIdx,       \* build_context_output: the full-file entry the loop is at
    rPc,        \* "exists" | "read" | "done" | "error" | "idle"
    rBlocks,    \* the lines appended for each entry handled so far
    rGone       \* the files deleted since the discovery

xvars == <<xPath, xText, xCtx, xMax, xPatterns, xPc, xResult>>
fvars == <<disk, output_path>>
dvars == <<dMatches, dIdx, dAcc, dPc, dResult>>
pvars == <<pArgs, pPc, pRun, pPack, pWritten, pOutcome, pEffects>>
rvars == <<rIdx, rPc, rBlocks, rGone>>

vars == <<xvars, fvars, dvars, pvars, rvars>>

----------------------------------------------------------------------------
(* Bounds of the model *)

MaxLines == 5          \* lines of a generated documentation text
MaxCtx == 2            \* largest context radius drawn
MaxSections == 2       \* largest section cap drawn
MaxRefs == 2           \* href/src attributes of a generated tool page
LongLines == 50        \* lines of the long file of the window-merge scenario

(* Program constants *)

DefaultContextLines == 10

----------------------------------------------------------------------------
(* Strings *)

Char(s, i) == SubSeq(s, i, i)

UpperChars == "ABCDEFGHIJKLMNOPQRSTUVWXYZ"
LowerChars == "abcdefghijklmnopqrstuvwxyz"

UpperSet == {Char(UpperChars, i) : i \in 1..26}

LowerOf == [c \in UpperSet |->
              Char(LowerChars, CHOOSE i \in 1..26 : Char(UpperChars, i) = c)]

\* str.lower() on one character
LowerChar(c) == IF c \in UpperSet THEN LowerOf[c] ELSE c

RECURSIVE LowerFrom(_, _)
LowerFrom(s, i) ==
    IF i > Len(s) THEN "" ELSE LowerChar(Char(s, i)) \o LowerFrom(s, i + 1)

\* str.lower()
Lower(s) == LowerFrom(s, 1)

\* str.startswith
StartsWith(s, p) == Len(s) >= Len(p) /\ SubSeq(s, 1, Len(p)) = p

\* does needle occur in s at position i, ignoring letter case (re.IGNORECASE)
MatchAtCI(s, i, needle) ==
    /\ i >= 1
    /\ i + Len(needle) - 1 <= Len(s)
    /\ \A k \in 1..Len(needle) :
           LowerChar(Char(s, i + k - 1)) = LowerChar(Char(needle, k))

Whitespace == {" ", "\t", "\n", "\r"}

\* first position >= i of s that holds no whitespace (Len(s) + 1 if none): \s*
RECURSIVE SkipWs(_, _)
SkipWs(s, i) ==
    IF i > Len(s) THEN Len(s) + 1
    ELSE IF Char(s, i) \in Whitespace THEN SkipWs(s, i + 1)
    ELSE i

\* positions of the character c in s
Positions(s, c) == {i \in 1..Len(s) : Char(s, i) = c}

Min(S) == CHOOSE m \in S : \A k \in S : m <= k
Max(S) == CHOOSE m \in S : \A k \in S : m >= k

\* the elements of a finite set of integers in ascending order
RECURSIVE SortedSeq(_)
SortedSeq(S) ==
    IF S = {} THEN <<>> ELSE <<Min(S)>> \o SortedSeq(S \ {Min(S)})

\* str.split(c)
SplitOn(s, c) ==
    LET cuts == SortedSeq(Positions(s, c))
        n    == Len(cuts)
    IN  [k \in 1..(n + 1) |->
            SubSeq(s,
                   IF k = 1 THEN 1 ELSE cuts[k - 1] + 1,
                   IF k = n + 1 THEN Len(s) ELSE cuts[k] - 1)]

\* str.splitlines() of a text whose line breaks are "\n": a final line break
\* opens no further line
SplitLines(s) ==
    LET parts == SplitOn(s, "\n")
    IN  IF parts[Len(parts)] = "" THEN SubSeq(parts, 1, Len(parts) - 1)
        ELSE parts

RECURSIVE JoinFrom(_, _, _)
JoinFrom(seq, sep, i) ==
    IF i > Len(seq) THEN ""
    ELSE IF i = Len(seq) THEN seq[i]
    ELSE seq[i] \o sep \o JoinFrom(seq, sep, i + 1)

\* sep.join(seq)
Join(seq, sep) == JoinFrom(seq, sep, 1)

\* str.strip()
Strip(s) ==
    LET keep == {j \in 1..Len(s) : Char(s, j) \notin Whitespace}
    IN  IF keep = {} THEN "" ELSE SubSeq(s, Min(keep), Max(keep))

\* Path(p).name of a "/"-separated path
PathName(p) == LET parts == SplitOn(p, "/") IN parts[Len(parts)]

\* PurePath.suffix: from the last dot of the name, unless the dot opens or
\* closes the name
Suffix(p) ==
    LET name == PathName(p)
        dots == Positions(name, ".")
    IN  IF dots = {} THEN ""
        ELSE IF Max(dots) > 1 /\ Max(dots) < Len(name)
             THEN SubSeq(name, Max(dots), Len(name))
             ELSE ""

\* PurePath.stem
Stem(p) ==
    LET name == PathName(p)
    IN  SubSeq(name, 1, Len(name) - Len(Suffix(p)))

----------------------------------------------------------------------------
(* Reference patterns: a compiled pattern is a literal (re.escape'd text)  *)
(* or the identifier association id\s*:\s*['"]<slug>['"], both IGNORECASE *)

Literal(s) == [kind |-> "literal", text |-> s]
IdAssoc(slug) == [kind |-> "id", text |-> slug]

Quotes == {"'", "\""}

\* does the identifier association match s at position i
IdMatchAt(s, i, slug) ==
    /\ MatchAtCI(s, i, "id")
    /\ LET colon == SkipWs(s, i + 2)
       IN  /\ colon <= Len(s)
           /\ Char(s, colon) = ":"
           /\ LET quote == SkipWs(s, colon + 1)
              IN  /\ quote <= Len(s)
                  /\ Char(s, quote) \in Quotes
                  /\ MatchAtCI(s, quote + 1, slug)
                  /\ quote + Len(slug) + 1 <= Len(s)
                  /\ Char(s, quote + Len(slug) + 1) \in Quotes

\* pattern.search(s) is not None
Search(pattern, s) ==
    IF pattern.kind = "literal"
    THEN \E i \in 1..(Len(s) + 1) : MatchAtCI(s, i, pattern.text)
    ELSE \E i \in 1..Len(s) : IdMatchAt(s, i, pattern.text)

\* any(pattern.search(s) for pattern in patterns)
AnySearch(patterns, s) == \E k \in 1..Len(patterns) : Search(patterns[k], s)

build_reference_patterns(target_rel, tool_slug, tool_title, tool_stem) ==
    << Literal(target_rel),
       Literal(PathName(target_rel)),
       IdAssoc(tool_slug),
       Literal(tool_stem),
       Literal(tool_title) >>

----------------------------------------------------------------------------
(* Excerpt extraction *)

\* MARKDOWN_HEADING_PATTERN.match(line): 0-3 blanks, 1-6 '#', blanks, text
HeadingParts(line) ==
    LET first  == SkipWs(line, 1)
        nohash == {j \in first..Len(line) : Char(line, j) # "#"}
        after  == IF nohash = {} THEN Len(line) + 1 ELSE Min(nohash)
    IN  [lead |-> first - 1, hashes |-> after - first, after |-> after]

IsHeading(line) ==
    LET h == HeadingParts(line)
    IN  /\ h.lead <= 3
        /\ h.hashes >= 1
        /\ h.hashes <= 6
        /\ h.after <= Len(line)
        /\ Char(line, h.after) \in Whitespace
        /\ Strip(SubSeq(line, h.after, Len(line))) # ""

\* heading_match.group(1).strip()
HeadingText(line) ==
    Strip(SubSeq(line, HeadingParts(line).after, Len(line)))

\* sorted(ranges, key=lambda pair: (pair[0], pair[1]))
RangeLeq(a, b) == a[1] < b[1] \/ (a[1] = b[1] /\ a[2] <= b[2])

RECURSIVE InsertRange(_, _)
InsertRange(sorted, r) ==
    IF sorted = <<>> THEN <<r>>
    ELSE IF RangeLeq(r, Head(sorted)) THEN <<r>> \o sorted
    ELSE <<Head(sorted)>> \o InsertRange(Tail(sorted), r)

RECURSIVE SortRanges(_)
SortRanges(ranges) ==
    IF ranges = <<>> THEN <<>>
    ELSE InsertRange(SortRanges(Tail(ranges)), Head(ranges))

\* mutant of MergeStep: a range is absorbed only when it starts before the end
MergeStepStrict(merged, r) ==
    LET last == merged[Len(merged)]
    IN  IF r[1] < last[2]
        THEN [merged EXCEPT ![Len(merged)] =
                 <<last[1], IF last[2] >= r[2] THEN last[2] ELSE r[2]>>]
        ELSE Append(merged, r)

\* the loop body of merge_ranges: absorb (start, end) or open a new range
MergeStep(merged, r) ==
    LET last == merged[Len(merged)]
    IN  IF r[1] <= last[2]
        THEN [merged EXCEPT ![Len(merged)] =
                 <<last[1], IF last[2] >= r[2] THEN last[2] ELSE r[2]>>]
        ELSE Append(merged, r)

RECURSIVE MergeFrom(_, _, _)
MergeFrom(sorted, i, merged) ==
    IF i > Len(sorted) THEN merged
    ELSE MergeFrom(sorted, i + 1, MergeStep(merged, sorted[i]))

merge_ranges(ranges) ==
    LET sorted_ranges == SortRanges(ranges)
    IN  IF sorted_ranges = <<>> THEN <<>>
        ELSE MergeFrom(sorted_ranges, 2, <<sorted_ranges[1]>>)

\* seq[:n]
Take(seq, n) == SubSeq(seq, 1, IF n < Len(seq) THEN n ELSE Len(seq))

\* the 0-based indices of the lines some pattern matches, ascending
hit_lines(lines, patterns) ==
    SortedSeq({idx \in 0..(Len(lines) - 1) : AnySearch(patterns, lines[idx + 1])})

\* mutant of window_range: the window ends at the line idx + c, excluded
window_range_short(idx, context_lines, n) ==
    << IF idx - context_lines > 0 THEN idx - context_lines ELSE 0,
       IF idx + context_lines < n THEN idx + context_lines ELSE n >>

\* the window of one hit: (max(0, idx - c), min(len(lines), idx + c + 1))
window_range(idx, context_lines, n) ==
    << IF idx - context_lines > 0 THEN idx - context_lines ELSE 0,
       IF idx + context_lines + 1 < n THEN idx + context_lines + 1 ELSE n >>

\* mutant of capped_windows: the cap is not applied
capped_windows_all(merged, max_sections) == merged

\* merge_ranges(ranges)[:max_sections]
capped_windows(merged, max_sections) == Take(merged, max_sections)

extract_windows(lines, patterns, context_lines, max_sections, label_prefix) ==
    LET hits   == hit_lines(lines, patterns)
        ranges == [k \in 1..Len(hits) |->
                      window_range(hits[k], context_lines, Len(lines))]
        merged == capped_windows(merge_ranges(ranges), max_sections)
    IN  [k \in 1..Len(merged) |->
            [label      |-> label_prefix \o " lines "
                              \o ToString(merged[k][1] + 1) \o "-"
                              \o ToString(merged[k][2]),
             start_line |-> merged[k][1] + 1,
             end_line   |-> merged[k][2],
             content    |-> Join(SubSeq(lines, merged[k][1] + 1, merged[k][2]),
                                 "\n")]]

\* the sections of a Markdown text: one per heading line, up to the next
\* heading or the end of the text
heading_indices(lines) ==
    SortedSeq({idx \in 0..(Len(lines) - 1) : IsHeading(lines[idx + 1])})

section_end(lines, heads, k) ==
    IF k + 1 <= Len(heads) THEN heads[k + 1] ELSE Len(lines)

section_text(lines, heads, k) ==
    Join(SubSeq(lines, heads[k] + 1, section_end(lines, heads, k)), "\n")

\* the loop of extract_markdown_sections: append the qualifying sections in
\* file order and break once max_sections are collected
RECURSIVE SectionLoop(_, _, _, _, _, _)
SectionLoop(lines, heads, patterns, max_sections, k, results) ==
    IF k > Len(heads) THEN results
    ELSE IF ~AnySearch(patterns, section_text(lines, heads, k))
    THEN SectionLoop(lines, heads, patterns, max_sections, k + 1, results)
    ELSE LET item == [label      |-> "Section: "
                                       \o HeadingText(lines[heads[k] + 1]),
                      start_line |-> heads[k] + 1,
                      end_line   |-> section_end(lines, heads, k),
                      content    |-> section_text(lines, heads, k)]
             grown == Append(results, item)
         IN  IF Len(grown) >= max_sections THEN grown
             ELSE SectionLoop(lines, heads, patterns, max_sections, k + 1, grown)

section_results(lines, patterns, max_sections) ==
    SectionLoop(lines, heading_indices(lines), patterns, max_sections, 1, <<>>)

\* mutant of extract_markdown_sections: line windows take precedence
extract_markdown_sections_windows_first(text, patterns, max_sections, context_lines) ==
    LET lines == SplitLines(text)
        wins  == extract_windows(lines, patterns, context_lines, max_sections,
                                 "Reference")
    IN  IF wins # <<>> THEN wins
        ELSE section_results(lines, patterns, max_sections)

extract_markdown_sections(text, patterns, max_sections, context_lines) ==
    LET lines == SplitLines(text)
        found == section_results(lines, patterns, max_sections)
    IN  IF found # <<>> THEN found
        ELSE extract_windows(lines, patterns, context_lines, max_sections,
                             "Reference")

extract_text_sections(path, text, patterns, max_sections, context_lines) ==
    IF Lower(Suffix(path)) = ".md"
    THEN extract_markdown_sections(text, patterns, max_sections, context_lines)
    ELSE extract_windows(SplitLines(text), patterns, context_lines,
                         max_sections, "Reference")

----------------------------------------------------------------------------
(* Paths and the file system.  A file system maps the absolute path of     *)
(* each file to its text; a directory exists when a file lies below it.    *)
(* There are no symbolic links, so Path.resolve() only folds "." and "..". *)

IGNORE_DIRS ==
    {".git", "__pycache__", ".pytest_cache", "node_modules", ".venv", "venv",
     ".idea", ".vscode"}

CODE_EXTENSIONS ==
    {".html", ".js", ".css", ".xml", ".py", ".ps1", ".json", ".ts", ".tsx", ".jsx"}

DOC_EXTENSIONS == {".md", ".txt", ".rst"}

TEXT_EXTENSIONS ==
    CODE_EXTENSIONS \cup DOC_EXTENSIONS
        \cup {".yml", ".yaml", ".toml", ".ini", ".csv", ".tsv", ".svg"}

\* the value None of an Optional[Path]
None == ""

\* seq without the elements of the set drop
RECURSIVE Without(_, _)
Without(seq, drop) ==
    IF seq = <<>> THEN <<>>
    ELSE IF Head(seq) \in drop THEN Without(Tail(seq), drop)
    ELSE <<Head(seq)>> \o Without(Tail(seq), drop)

\* the components of a path
Parts(p) == Without(SplitOn(p, "/"), {""})

\* Path.resolve() on the components of an absolute path
RECURSIVE Fold(_, _)
Fold(parts, done) ==
    IF parts = <<>> THEN done
    ELSE IF Head(parts) = "." THEN Fold(Tail(parts), done)
    ELSE IF Head(parts) = ".."
    THEN Fold(Tail(parts),
              IF done = <<>> THEN done ELSE SubSeq(done, 1, Len(done) - 1))
    ELSE Fold(Tail(parts), Append(done, Head(parts)))

AbsPath(parts) == "/" \o Join(parts, "/")

\* (base / rel).resolve(), base absolute: an absolute rel replaces base
ResolveUnder(base, rel) ==
    IF StartsWith(rel, "/") THEN AbsPath(Fold(Parts(rel), <<>>))
    ELSE AbsPath(Fold(Parts(base) \o Parts(rel), <<>>))

\* Path.parent of an absolute path
Parent(p) ==
    LET parts == Parts(p)
    IN  AbsPath(SubSeq(parts, 1, Len(parts) - 1))

IsPrefix(a, b) == Len(a) <= Len(b) /\ SubSeq(b, 1, Len(a)) = a

\* Path.exists(): a file of the file system, or a directory above one
Exists(files, p) ==
    \/ p \in DOMAIN files
    \/ \E f \in DOMAIN files : IsPrefix(Parts(p), Parts(f))

\* path.relative_to(root) raises ValueError
OutsideRoot(path, root) == ~IsPrefix(Parts(root), Parts(path))

\* the components of path.relative_to(root)
RelativeParts(path, root) ==
    SubSeq(Parts(path), Len(Parts(root)) + 1, Len(Parts(path)))

to_repo_relative(path, repo_root) ==
    IF OutsideRoot(path, repo_root) THEN path
    ELSE IF RelativeParts(path, repo_root) = <<>> THEN "."
    ELSE Join(RelativeParts(path, repo_root), "/")

\* mutant of is_external_reference: the prefixes are compared as written
is_external_reference_cased(reference) ==
    \/ StartsWith(reference, "http://")
    \/ StartsWith(reference, "https://")
    \/ StartsWith(reference, "//")

\* mutant of is_external_reference: every reference with a scheme is external
is_external_reference_scheme(reference) ==
    \/ StartsWith(reference, "//")
    \/ Positions(reference, ":") # {}

is_external_reference(reference) ==
    LET lowered == Lower(reference)
    IN  \/ StartsWith(lowered, "http://")
        \/ StartsWith(lowered, "https://")
        \/ StartsWith(lowered, "//")

is_non_file_reference(reference) ==
    LET lowered == Lower(reference)
    IN  \/ StartsWith(lowered, "data:")
        \/ StartsWith(lowered, "mailto:")
        \/ StartsWith(lowered, "javascript:")
        \/ StartsWith(lowered, "tel:")
        \/ StartsWith(lowered, "#")

should_skip_path(path, repo_root) ==
    IF OutsideRoot(path, repo_root) THEN TRUE
    ELSE LET relative == RelativeParts(path, repo_root)
         IN  \E k \in 1..Len(relative) :
                relative[k] \in IGNORE_DIRS \/ relative[k] = "context"

\* str.lstrip("/")
LStripSlash(s) ==
    LET keep == {j \in 1..Len(s) : Char(s, j) # "/"}
    IN  IF keep = {} THEN "" ELSE SubSeq(s, Min(keep), Len(s))

\* reference.split("#", 1)[0].split("?", 1)[0].strip()
reference_path(reference) ==
    Strip(SplitOn(SplitOn(reference, "#")[1], "?")[1])

\* resolve_target_reference trying the repository root before the directory
\* of the target
resolve_target_reference_root_first(files, reference, target_file, repo_root) ==
    LET path == reference_path(reference)
        candidate == ResolveUnder(repo_root, LStripSlash(path))
        rel_parts == Without(SplitOn(path, "/"), {"", "."})
        candidate_rel == Join(rel_parts, "/")
        candidate_from_target == ResolveUnder(Parent(target_file), candidate_rel)
        candidate_from_root == ResolveUnder(repo_root, candidate_rel)
    IN  IF path = "" THEN None
        ELSE IF is_external_reference(path) \/ is_non_file_reference(path)
        THEN None
        ELSE IF StartsWith(path, "/")
        THEN (IF Exists(files, candidate) THEN candidate ELSE None)
        ELSE IF Exists(files, candidate_from_root) THEN candidate_from_root
        ELSE IF Exists(files, candidate_from_target) THEN candidate_from_target
        ELSE None

resolve_target_reference(files, reference, target_file, repo_root) ==
    LET path == reference_path(reference)
        candidate == ResolveUnder(repo_root, LStripSlash(path))
        rel_parts == Without(SplitOn(path, "/"), {"", "."})
        candidate_rel == Join(rel_parts, "/")
        candidate_from_target == ResolveUnder(Parent(target_file), candidate_rel)
        candidate_from_root == ResolveUnder(repo_root, candidate_rel)
    IN  IF path = "" THEN None
        ELSE IF is_external_reference(path) \/ is_non_file_reference(path)
        THEN None
        ELSE IF StartsWith(path, "/")
        THEN (IF Exists(files, candidate) THEN candidate ELSE None)
        ELSE IF Exists(files, candidate_from_target) THEN candidate_from_target
        ELSE IF Exists(files, candidate_from_root) THEN candidate_from_root
        ELSE None

----------------------------------------------------------------------------
(* Dependency collection *)

\* the characters of the model's texts in code-point order: sorted() on str
CharOrder ==
    "\t\n\r !\"#$%&'()*+,-./0123456789:;<=>?@ABCDEFGHIJKLMNOPQRSTUVWXYZ[]^_abcdefghijklmnopqrstuvwxyz{|}~"

CharRank(c) ==
    LET at == {i \in 1..Len(CharOrder) : Char(CharOrder, i) = c}
    IN  IF at = {} THEN 0 ELSE Min(at)

\* a < b as Python compares str
StrLess(a, b) ==
    LET differ == {i \in 1..Len(a) : i > Len(b) \/ Char(a, i) # Char(b, i)}
    IN  IF differ = {} THEN Len(a) < Len(b)
        ELSE /\ Min(differ) <= Len(b)
             /\ CharRank(Char(a, Min(differ))) < CharRank(Char(b, Min(differ)))

\* sorted(S) for a set of strings
RECURSIVE SortedStrings(_)
SortedStrings(S) ==
    IF S = {} THEN <<>>
    ELSE LET least == CHOOSE a \in S : \A b \in S \ {a} : StrLess(a, b)
         IN  <<least>> \o SortedStrings(S \ {least})

\* ASSET_REFERENCE_PATTERN matched at position i of text: the end of the run
\* of non-quote characters (group 1) when it matches, 0 when it does not
AssetMatchEnd(text, i) ==
    LET word  == IF MatchAtCI(text, i, "href") THEN 4
                 ELSE IF MatchAtCI(text, i, "src") THEN 3 ELSE 0
        eq    == SkipWs(text, i + word)
        open  == SkipWs(text, eq + 1)
        stops == {j \in (open + 1)..Len(text) : Char(text, j) \in Quotes}
    IN  IF /\ word > 0
           /\ eq <= Len(text)
           /\ Char(text, eq) = "="
           /\ open <= Len(text)
           /\ Char(text, open) \in Quotes
           /\ stops # {}
           /\ Min(stops) > open + 1
        THEN Min(stops) - 1
        ELSE 0

\* [match.group(1) for match in ASSET_REFERENCE_PATTERN.finditer(text)]
RECURSIVE AssetRefsFrom(_, _)
AssetRefsFrom(text, from) ==
    IF from > Len(text) THEN <<>>
    ELSE IF AssetMatchEnd(text, from) = 0 THEN AssetRefsFrom(text, from + 1)
    ELSE LET last == AssetMatchEnd(text, from)
             open == Max({j \in from..last : Char(text, j) \in Quotes})
         IN  <<SubSeq(text, open + 1, last)>> \o AssetRefsFrom(text, last + 2)

AssetRefs(text) == AssetRefsFrom(text, 1)

\* the sets a run of collect_local_dependencies accumulates, and its history:
\* resolved holds the references handed to resolve_target_reference, placed
\* the references that added to a set, with the set
NoDeps ==
    [local |-> {}, external |-> {}, resolved |-> {}, placed |-> {}, answers |-> {}]

\* is the resolved path kept as a local dependency
keeps_dependency(resolved, repo_root) ==
    /\ resolved # None
    /\ ~should_skip_path(resolved, repo_root)
    /\ Lower(Suffix(resolved)) \in TEXT_EXTENSIONS

\* the body of the loop of collect_local_dependencies for one match
DepStep(files, acc, group1, target_file, repo_root) ==
    LET raw_reference == Strip(group1)
        resolved == resolve_target_reference(files, raw_reference, target_file,
                                             repo_root)
    IN  IF raw_reference = "" THEN acc
        ELSE IF is_external_reference(raw_reference)
        THEN [acc EXCEPT !.external = @ \cup {raw_reference},
                         !.placed = @ \cup {<<raw_reference, "external">>}]
        ELSE IF is_non_file_reference(raw_reference) THEN acc
        ELSE IF keeps_dependency(resolved, repo_root)
        THEN [acc EXCEPT !.resolved = @ \cup {raw_reference},
                         !.answers = @ \cup {<<raw_reference, resolved>>},
                         !.local = @ \cup {to_repo_relative(resolved, repo_root)},
                         !.placed = @ \cup {<<raw_reference, "local">>}]
        ELSE [acc EXCEPT !.resolved = @ \cup {raw_reference},
                         !.answers = @ \cup {<<raw_reference, resolved>>}]

RECURSIVE DepLoop(_, _, _, _, _, _)
DepLoop(files, refs, k, acc, target_file, repo_root) ==
    IF k > Len(refs) THEN acc
    ELSE DepLoop(files, refs, k + 1,
                 DepStep(files, acc, refs[k], target_file, repo_root),
                 target_file, repo_root)

\* (sorted(local), sorted(external))
collect_local_dependencies(files, target_text, target_file, repo_root) ==
    LET acc == DepLoop(files, AssetRefs(target_text), 1, NoDeps, target_file,
                       repo_root)
    IN  <<SortedStrings(acc.local), SortedStrings(acc.external)>>

----------------------------------------------------------------------------
(* Discovery: title, incoming references, direct documents, excerpts *)

Digits == "0123456789"

IsAlnum(c) ==
    \/ \E i \in 1..26 : Char(LowerChars, i) = c
    \/ \E i \in 1..10 : Char(Digits, i) = c

IsLetter(c) == c \in UpperSet \/ \E i \in 1..26 : Char(LowerChars, i) = c

UpperChar(c) ==
    LET at == {i \in 1..26 : Char(LowerChars, i) = c}
    IN  IF at = {} THEN c ELSE Char(UpperChars, Min(at))

\* re.sub(r"\s+", " ", s): every run of whitespace becomes one blank
RECURSIVE CollapseFrom(_, _)
CollapseFrom(s, i) ==
    IF i > Len(s) THEN ""
    ELSE IF Char(s, i) \notin Whitespace THEN Char(s, i) \o CollapseFrom(s, i + 1)
    ELSE IF i > 1 /\ Char(s, i - 1) \in Whitespace THEN CollapseFrom(s, i + 1)
    ELSE " " \o CollapseFrom(s, i + 1)

Collapse(s) == CollapseFrom(s, 1)

\* str.rstrip()
RECURSIVE RStripTo(_, _)
RStripTo(s, n) ==
    IF n = 0 THEN ""
    ELSE IF Char(s, n) \in Whitespace THEN RStripTo(s, n - 1)
    ELSE SubSeq(s, 1, n)

RStrip(s) == RStripTo(s, Len(s))

\* re.sub(r"\s*-\s*Text Utilities\s*$", "", title, flags=re.IGNORECASE)
StripSiteSuffix(title) ==
    LET body == RStrip(title)
        cut  == Len(body) - Len("Text Utilities")
        head == RStrip(SubSeq(body, 1, cut))
    IN  IF /\ cut >= 1
           /\ MatchAtCI(body, cut + 1, "Text Utilities")
           /\ head # ""
           /\ Char(head, Len(head)) = "-"
        THEN RStrip(SubSeq(head, 1, Len(head) - 1))
        ELSE title

\* the first position after i that holds c, 0 if none
NextChar(s, i, c) ==
    LET at == {j \in (i + 1)..Len(s) : Char(s, j) = c}
    IN  IF at = {} THEN 0 ELSE Min(at)

\* <h2[^>]*>\s*([^<]+?)\s*</h2> matched at position i: the text between the
\* tags is not empty and holds no other tag
H2Match(text, i) ==
    LET gt == NextChar(text, i + 2, ">")
        lt == NextChar(text, gt, "<")
    IN  /\ MatchAtCI(text, i, "<h2")
        /\ gt > 0
        /\ lt > gt + 1
        /\ MatchAtCI(text, lt, "</h2>")

H2Title(text, i) ==
    LET gt == NextChar(text, i + 2, ">")
        lt == NextChar(text, gt, "<")
    IN  Strip(Collapse(SubSeq(text, gt + 1, lt - 1)))

\* <title[^>]*>\s*(.*?)\s*</title> matched at position i (re.DOTALL)
TitleMatch(text, i) ==
    LET gt == NextChar(text, i + 5, ">")
    IN  /\ MatchAtCI(text, i, "<title")
        /\ gt > 0
        /\ \E j \in (gt + 1)..Len(text) : MatchAtCI(text, j, "</title>")

TitleText(text, i) ==
    LET gt    == NextChar(text, i + 5, ">")
        close == Min({j \in (gt + 1)..Len(text) : MatchAtCI(text, j, "</title>")})
    IN  StripSiteSuffix(Strip(Collapse(SubSeq(text, gt + 1, close - 1))))

\* str.title() after replacing "-" and "_" by blanks
RECURSIVE HumanizeFrom(_, _)
HumanizeFrom(s, i) ==
    IF i > Len(s) THEN ""
    ELSE LET c == IF Char(s, i) \in {"-", "_"} THEN " " ELSE Char(s, i)
             opens == i = 1 \/ ~IsLetter(Char(s, i - 1))
         IN  (IF opens THEN UpperChar(c) ELSE LowerChar(c))
                 \o HumanizeFrom(s, i + 1)

extract_tool_title(target_text, target_file) ==
    LET h2s    == {i \in 1..Len(target_text) : H2Match(target_text, i)}
        titles == {i \in 1..Len(target_text) : TitleMatch(target_text, i)}
    IN  IF h2s # {} THEN H2Title(target_text, Min(h2s))
        ELSE IF titles # {} /\ TitleText(target_text, Min(titles)) # ""
        THEN TitleText(target_text, Min(titles))
        ELSE HumanizeFrom(Stem(target_file), 1)

\* re.sub(r"[^a-z0-9]+", "", value.lower())
RECURSIVE KeyFrom(_, _)
KeyFrom(s, i) ==
    IF i > Len(s) THEN ""
    ELSE (IF IsAlnum(LowerChar(Char(s, i))) THEN LowerChar(Char(s, i)) ELSE "")
             \o KeyFrom(s, i + 1)

normalize_key(value) == KeyFrom(value, 1)

\* re.sub(r"[^a-z0-9]+", "-", value.lower()).strip("-") or "tool"
RECURSIVE SlugFrom(_, _)
SlugFrom(s, i) ==
    IF i > Len(s) THEN ""
    ELSE IF IsAlnum(LowerChar(Char(s, i)))
    THEN LowerChar(Char(s, i)) \o SlugFrom(s, i + 1)
    ELSE IF i > 1 /\ ~IsAlnum(LowerChar(Char(s, i - 1))) THEN SlugFrom(s, i + 1)
    ELSE "-" \o SlugFrom(s, i + 1)

slugify(value) ==
    LET slug == SlugFrom(value, 1)
        keep == {j \in 1..Len(slug) : Char(slug, j) # "-"}
    IN  IF keep = {} THEN "tool" ELSE SubSeq(slug, Min(keep), Max(keep))

\* sub in s, for two str
Contains(s, sub) ==
    \E i \in 1..(Len(s) - Len(sub) + 1) : SubSeq(s, i, i + Len(sub) - 1) = sub

\* iter_repo_files: the files below the root that should_skip_path lets pass,
\* in the order of their paths
iter_repo_files(files, repo_root) ==
    SortedStrings({f \in DOMAIN files :
                     ~OutsideRoot(f, repo_root) /\ ~should_skip_path(f, repo_root)})

\* the code files of the walk, other than the target, whose text matches
incoming_of(files, walk, target_file, patterns) ==
    {walk[k] : k \in {j \in 1..Len(walk) :
        /\ walk[j] # target_file
        /\ Lower(Suffix(walk[j])) \in CODE_EXTENSIONS
        /\ AnySearch(patterns, files[walk[j]])}}

collect_incoming_code_refs(files, repo_root, target_file, patterns) ==
    SortedStrings({to_repo_relative(f, repo_root) :
        f \in incoming_of(files, iter_repo_files(files, repo_root), target_file,
                          patterns)})

\* is the file a direct document of the tool: its name holds the slug key or
\* its stem holds the stem key
is_direct_doc(f, target_file, tool_slug, tool_stem) ==
    LET slug_key == normalize_key(tool_slug)
        stem_key == normalize_key(tool_stem)
    IN  /\ Lower(Suffix(f)) \in DOC_EXTENSIONS
        /\ f # target_file
        /\ \/ slug_key # "" /\ Contains(normalize_key(PathName(f)), slug_key)
           \/ stem_key # "" /\ Contains(normalize_key(Stem(f)), stem_key)

collect_direct_docs(files, repo_root, target_file, tool_slug, tool_stem) ==
    LET walk == iter_repo_files(files, repo_root)
    IN  SortedStrings({to_repo_relative(walk[k], repo_root) :
            k \in {j \in 1..Len(walk) :
                     is_direct_doc(walk[j], target_file, tool_slug, tool_stem)}})

\* add_unique keyed by the path as spelled
add_unique_cased(state, rel_path) ==
    LET key == rel_path
    IN  IF key \in state.seen THEN state
        ELSE [ordered |-> Append(state.ordered, rel_path),
              seen    |-> state.seen \cup {key}]

\* add_unique on the pair (ordered, seen)
add_unique(state, rel_path) ==
    LET key == Lower(rel_path)
    IN  IF key \in state.seen THEN state
        ELSE [ordered |-> Append(state.ordered, rel_path),
              seen    |-> state.seen \cup {key}]

RECURSIVE add_all(_, _, _)
add_all(state, rels, k) ==
    IF k > Len(rels) THEN state
    ELSE add_all(add_unique(state, rels[k]), rels, k + 1)

\* lines 624-632: the full-file list
ordered_files(target_rel, local_dependencies, incoming_refs, direct_docs) ==
    LET start == add_unique([ordered |-> <<>>, seen |-> {}], target_rel)
        deps  == add_all(start, local_dependencies, 1)
        refs  == add_all(deps, incoming_refs, 1)
        docs  == add_all(refs, direct_docs, 1)
    IN  docs.ordered

\* is_excerpted without the test of the excluded paths
is_excerpted_any(files, f, repo_root, patterns, excluded_rel_paths) ==
    /\ Lower(Suffix(f)) \in DOC_EXTENSIONS
    /\ AnySearch(patterns, files[f])

\* is the file excerpted: not excluded, a document, and its text matches
is_excerpted(files, f, repo_root, patterns, excluded_rel_paths) ==
    /\ to_repo_relative(f, repo_root) \notin excluded_rel_paths
    /\ Lower(Suffix(f)) \in DOC_EXTENSIONS
    /\ AnySearch(patterns, files[f])

\* the Excerpt objects of one file
file_excerpts(files, f, repo_root, patterns, max_sections, context_lines) ==
    LET sections == extract_text_sections(f, files[f], patterns, max_sections,
                                          context_lines)
    IN  [k \in 1..Len(sections) |->
            [rel_path   |-> to_repo_relative(f, repo_root),
             label      |-> sections[k].label,
             start_line |-> sections[k].start_line,
             end_line   |-> sections[k].end_line,
             content    |-> sections[k].content]]

\* key=lambda item: (item.rel_path.lower(), item.start_line)
ExcerptLess(a, b) ==
    \/ StrLess(Lower(a.rel_path), Lower(b.rel_path))
    \/ Lower(a.rel_path) = Lower(b.rel_path) /\ a.start_line < b.start_line

\* sorted(): stable insertion of item into a sorted list
RECURSIVE InsertExcerpt(_, _)
InsertExcerpt(sorted, item) ==
    IF sorted = <<>> THEN <<item>>
    ELSE IF ExcerptLess(item, Head(sorted)) THEN <<item>> \o sorted
    ELSE <<Head(sorted)>> \o InsertExcerpt(Tail(sorted), item)

RECURSIVE SortExcerpts(_, _)
SortExcerpts(items, k) ==
    IF k = 0 THEN <<>>
    ELSE InsertExcerpt(SortExcerpts(items, k - 1), items[k])

RECURSIVE excerpt_loop(_, _, _, _, _, _, _, _)
excerpt_loop(files, walk, k, repo_root, patterns, excluded_rel_paths, max_sections, context_lines) ==
    IF k > Len(walk) THEN <<>>
    ELSE (IF is_excerpted(files, walk[k], repo_root, patterns, excluded_rel_paths)
          THEN file_excerpts(files, walk[k], repo_root, patterns, max_sections,
                             context_lines)
          ELSE <<>>)
         \o excerpt_loop(files, walk, k + 1, repo_root, patterns,
                         excluded_rel_paths, max_sections, context_lines)

collect_reference_excerpts(files, repo_root, patterns, excluded_rel_paths, max_sections_per_file, context_lines) ==
    LET found == excerpt_loop(files, iter_repo_files(files, repo_root), 1,
                              repo_root, patterns, excluded_rel_paths,
                              max_sections_per_file, context_lines)
    IN  SortExcerpts(found, Len(found))

----------------------------------------------------------------------------
(* Rendering *)

\* the grave accent, which a string literal cannot hold on its own
Tick == SubSeq("`'", 1, 1)

Fence == Tick \o Tick \o Tick

\* f"{n:4}"
Pad4(n) ==
    LET digits == ToString(n)
    IN  SubSeq("    ", 1, 4 - Len(digits)) \o digits

get_numbered_content(text, start_line) ==
    LET lines == SplitLines(text)
    IN  Join([idx \in 1..Len(lines) |->
                 Pad4(start_line + idx - 1) \o ": " \o lines[idx]], "\n")

get_language_tag(path) ==
    LET suffix == Lower(Suffix(path))
    IN  CASE suffix = ".html" -> "html"
          [] suffix = ".css"  -> "css"
          [] suffix = ".js"   -> "javascript"
          [] suffix = ".xml"  -> "xml"
          [] suffix = ".ps1"  -> "powershell"
          [] suffix = ".py"   -> "python"
          [] suffix = ".md"   -> "markdown"
          [] suffix = ".json" -> "json"
          [] suffix = ".yml"  -> "yaml"
          [] suffix = ".yaml" -> "yaml"
          [] suffix = ".ts"   -> "typescript"
          [] suffix = ".tsx"  -> "tsx"
          [] suffix = ".jsx"  -> "jsx"
          [] OTHER            -> "text"

RECURSIVE Flatten(_, _)
Flatten(seqs, k) ==
    IF k > Len(seqs) THEN <<>> ELSE seqs[k] \o Flatten(seqs, k + 1)

\* the lines of a full-file entry whose path does not exist (lines 543-548)
missing_block(rel_path) ==
    << "----- BEGIN FILE: " \o rel_path \o " -----",
       "Missing at dump time.",
       "----- END FILE: " \o rel_path \o " -----",
       "" >>

\* the lines of a full-file entry whose text was read (lines 543, 550-557)
present_block(file_text, full_path, rel_path) ==
    << "----- BEGIN FILE: " \o rel_path \o " -----",
       Fence \o get_language_tag(full_path),
       get_numbered_content(file_text, 1),
       Fence,
       "----- END FILE: " \o rel_path \o " -----",
       "" >>

\* the lines of one full-file dump (lines 541-557), on an unchanging disk
file_block(files, repo_root, rel_path) ==
    LET full_path == ResolveUnder(repo_root, rel_path)
    IN  IF ~Exists(files, full_path)
        THEN missing_block(rel_path)
        ELSE present_block(files[full_path], full_path, rel_path)

\* the lines of one excerpt (lines 566-579)
excerpt_block(excerpt) ==
    LET marker == excerpt.rel_path \o " | " \o excerpt.label \o " (lines "
                      \o ToString(excerpt.start_line) \o "-"
                      \o ToString(excerpt.end_line) \o ")"
    IN  << "----- BEGIN EXCERPT: " \o marker \o " -----",
           Fence \o "text",
           get_numbered_content(excerpt.content, excerpt.start_line),
           Fence,
           "----- END EXCERPT: " \o marker \o " -----",
           "" >>

Bullets(items) == [k \in 1..Len(items) |-> "- " \o Tick \o items[k] \o Tick]

\* the text build_context_output returns, given the lines its loop over the
\* full files appended; the record pack holds its arguments
render_output(repo_root, out, pack, generated_utc, dumps) ==
    LET head ==
          << "# LLM Context Pack: " \o pack.tool_title,
             "",
             "This generated file is designed as a context bundle for LLM prompts.",
             "It contains full source text for files directly associated with the tool, "
                 \o "plus extracted sections from broader docs that reference the tool.",
             "Every included block is wrapped with explicit BEGIN/END markers for "
                 \o "reliable chunking.",
             "",
             "Generated: " \o generated_utc,
             "Repository: " \o Tick \o repo_root \o Tick,
             "Tool slug: " \o Tick \o pack.tool_slug \o Tick,
             "Tool page: " \o Tick \o pack.target_rel \o Tick,
             "Output file: " \o Tick \o to_repo_relative(out, repo_root) \o Tick,
             "",
             "## Discovery Summary",
             "- Full files included: " \o ToString(Len(pack.full_files)),
             "- Direct local dependencies: " \o ToString(Len(pack.local_dependencies)),
             "- Incoming code references: " \o ToString(Len(pack.incoming_refs)),
             "- Direct tool docs (full): " \o ToString(Len(pack.direct_docs)),
             "- Cross-file text excerpts: " \o ToString(Len(pack.excerpts)),
             "- External dependencies in tool page: "
                 \o ToString(Len(pack.external_dependencies)),
             "",
             "## Included Full Files" >>
        externals ==
          IF pack.external_dependencies # <<>>
          THEN Bullets(pack.external_dependencies)
          ELSE << "- None detected" >>
        texts ==
          IF pack.excerpts = <<>>
          THEN << "No additional text excerpts were needed.", "" >>
          ELSE Flatten([k \in 1..Len(pack.excerpts) |->
                           excerpt_block(pack.excerpts[k])], 1)
        lines ==
          head \o Bullets(pack.full_files) \o << "" >>
               \o << "## External Dependencies" >> \o externals \o << "" >>
               \o << "## Full File Dumps", "" >> \o dumps
               \o << "## Referenced Text Excerpts", "" >> \o texts
    IN  RStrip(Join(lines, "\n")) \o "\n"

\* build_context_output when no file changes during the call
build_context_output(files, repo_root, out, pack, generated_utc) ==
    render_output(repo_root, out, pack, generated_utc,
                  Flatten([k \in 1..Len(pack.full_files) |->
                              file_block(files, repo_root, pack.full_files[k])], 1))

\* lines 624-640: the full-file list, and the excerpts of the other files
discover_excerpts(files, repo_root, patterns, full, max_sections_per_file, context_lines) ==
    collect_reference_excerpts(files, repo_root, patterns,
                               {full[k] : k \in 1..Len(full)},
                               max_sections_per_file, context_lines)

\* lines 612-622: the files that refer to the target, and its documents
discover_files(files, repo_root, target_file, tool_slug, patterns) ==
    [incoming_refs |-> collect_incoming_code_refs(files, repo_root, target_file,
                                                  patterns),
     direct_docs   |-> collect_direct_docs(files, repo_root, target_file,
                                           tool_slug, Stem(target_file))]

\* lines 597-611: what the text of the target gives
discover_target(files, repo_root, target_file, target_text, tool_slug) ==
    [target_rel   |-> to_repo_relative(target_file, repo_root),
     tool_title   |-> extract_tool_title(target_text, target_file),
     dependencies |-> collect_local_dependencies(files, target_text, target_file,
                                                 repo_root)]

\* the arguments build_context_output is called with (lines 642-654)
pack_of(tool_slug, target, found, full, excerpts) ==
    [tool_slug             |-> tool_slug,
     tool_title            |-> target.tool_title,
     target_rel            |-> target.target_rel,
     full_files            |-> full,
     local_dependencies    |-> target.dependencies[1],
     incoming_refs         |-> found.incoming_refs,
     direct_docs           |-> found.direct_docs,
     external_dependencies |-> target.dependencies[2],
     excerpts              |-> excerpts]

\* lines 634-640, with the full-file list in hand
discover_full(files, repo_root, tool_slug, target, patterns, found, full, max_sections_per_file, context_lines) ==
    pack_of(tool_slug, target, found, full,
            discover_excerpts(files, repo_root, patterns, full,
                              max_sections_per_file, context_lines))

\* lines 612-640, with the patterns in hand
discover_found(files, repo_root, tool_slug, target, patterns, found, max_sections_per_file, context_lines) ==
    discover_full(files, repo_root, tool_slug, target, patterns, found,
                  ordered_files(target.target_rel, target.dependencies[1],
                                found.incoming_refs, found.direct_docs),
                  max_sections_per_file, context_lines)

discover_patterns(files, repo_root, target_file, tool_slug, target, patterns, max_sections_per_file, context_lines) ==
    discover_found(files, repo_root, tool_slug, target, patterns,
                   discover_files(files, repo_root, target_file, tool_slug,
                                  patterns),
                   max_sections_per_file, context_lines)

\* lines 606-640, with the target read
discover_read(files, repo_root, target_file, tool_slug, target, max_sections_per_file, context_lines) ==
    discover_patterns(files, repo_root, target_file, tool_slug, target,
                      build_reference_patterns(target.target_rel, tool_slug,
                                               target.tool_title,
                                               Stem(target_file)),
                      max_sections_per_file, context_lines)

\* lines 597-640, with the target file resolved
discover_at(files, repo_root, target_file, tool_slug, max_sections_per_file, context_lines) ==
    discover_read(files, repo_root, target_file, tool_slug,
                  discover_target(files, repo_root, target_file,
                                  files[target_file], tool_slug),
                  max_sections_per_file, context_lines)

\* lines 593-640 of generate_context_pack: everything the run discovers
discover(files, repo_root, target_relative, tool_slug, max_sections_per_file, context_lines) ==
    discover_at(files, repo_root, ResolveUnder(repo_root, target_relative),
                tool_slug, max_sections_per_file, context_lines)

----------------------------------------------------------------------------
(* Runs of extract_text_sections on one documentation file.  The patterns  *)
(* are those of the tool page demo.html, slug "demo", title "Demo Tool".   *)

DemoPatterns == build_reference_patterns("demo.html", "demo", "Demo Tool", "demo")

\* the patterns of the same page when the run is given the tool id json-tool
\* (code-dump-json-tool.py --target demo.html)
JsonPatterns == build_reference_patterns("demo.html", "json-tool", "Demo Tool", "demo")

\* the lines a generated documentation text is made of
LinePool == {"x", "see demo.html", "## Usage"}

\* whole documents with several headings
SampleDocs ==
    { "# Setup\nx\n## Usage\nsee demo.html\n# Notes\nx",
      "intro for demo.html\n# Setup\nx\n## Usage\nrun demo.html\n### Notes\nx",
      "# Setup\nopen demo.html\n## Usage\nsee demo.html\n# Notes\nDemo Tool",
      "   ###### Deep   \nid : 'demo'\n####### seven\n    # indented\n#none",
      "# Demo\nsee demo.html\n\n# Other\nx\n",
      "tools = [\n  { id:\n    'json-tool' }\n]\n" }

DocPaths == {"docs/guide.md", "notes.txt"}

\* the long file of the window-merge scenario: its hits are the lines hits
LongText(hits) ==
    Join([i \in 1..LongLines |->
             IF (i - 1) \in hits THEN "see demo.html" ELSE "x"], "\n")

ExtractIdle ==
    /\ xPath = ""
    /\ xText = ""
    /\ xCtx = 0
    /\ xMax = 0
    /\ xPatterns = <<>>
    /\ xPc = "idle"
    /\ xResult = <<>>

ExtractInitShort ==
    /\ \E n \in 0..MaxLines :
          \E lines \in [1..n -> LinePool] : xText = Join(lines, "\n")
    /\ xCtx \in 1..MaxCtx
    /\ xPatterns = DemoPatterns

ExtractInitLong ==
    /\ \E hits \in SUBSET {5, 7, 30} : xText = LongText(hits)
    /\ xCtx = DefaultContextLines
    /\ xPatterns = DemoPatterns

ExtractInitSample ==
    /\ xText \in SampleDocs
    /\ xCtx \in 1..MaxCtx
    /\ xPatterns \in {DemoPatterns, JsonPatterns}

NoFiles == [f \in {} |-> ""]

FilesIdle == disk = NoFiles /\ output_path = ""

DepsIdle ==
    /\ dMatches = <<>>
    /\ dIdx = 0
    /\ dAcc = NoDeps
    /\ dPc = "idle"
    /\ dResult = <<>>

NoPack ==
    [tool_slug |-> "", tool_title |-> "", target_rel |-> "",
     full_files |-> <<>>, local_dependencies |-> <<>>, incoming_refs |-> <<>>,
     direct_docs |-> <<>>, external_dependencies |-> <<>>, excerpts |-> <<>>]

NoArgs == [entry |-> "", tool |-> None, target |-> None, output |-> None]

NoOutcome == [status |-> 0, printed |-> <<>>, error |-> None, escaped |-> FALSE]

PackIdle ==
    /\ pArgs = NoArgs
    /\ pPc = "idle"
    /\ pRun = 0
    /\ pPack = NoPack
    /\ pWritten = <<>>
    /\ pOutcome = NoOutcome
    /\ pEffects = <<>>

RenderIdle ==
    /\ rIdx = 0
    /\ rPc = "idle"
    /\ rBlocks = <<>>
    /\ rGone = {}

ExtractInit ==
    /\ FilesIdle
    /\ DepsIdle
    /\ PackIdle
    /\ RenderIdle
    /\ xPath \in DocPaths
    /\ xMax \in 1..MaxSections
    /\ xPc = "ready"
    /\ xResult = <<>>
    /\ (ExtractInitShort \/ ExtractInitLong \/ ExtractInitSample)

\* collect_reference_excerpts' call of extract_text_sections for one file
Extract ==
    /\ xPc = "ready"
    /\ xResult' = extract_text_sections(xPath, xText, xPatterns, xMax, xCtx)
    /\ xPc' = "done"
    /\ UNCHANGED <<xPath, xText, xCtx, xMax, xPatterns, fvars, dvars, pvars, rvars>>

ExtractNext == Extract

SpecExtract == ExtractInit /\ [][ExtractNext]_vars

----------------------------------------------------------------------------
(* Runs of collect_local_dependencies on the tool page tools/demo.html     *)

RepoRoot == "/repo"

DepTarget == "/repo/tools/demo.html"

\* the repository of the dependency runs, and a file outside it
DepRepo ==
    [f \in {"/repo/tools/demo.html", "/repo/tools/demo.js", "/repo/css/site.css",
            "/repo/tools/node_modules/lib/a.js", "/repo/context/old.txt",
            "/repo/out/prev.txt", "/repo/tools/img/logo.png", "/repo/demo.js",
            "/secret.js"}
       |-> "x"]

\* the attribute values a generated tool page refers to
RefPool ==
    {"https://cdn.example.com/lib.js", "HTTP://x.org/a.css",
     "//cdn.example.com/x.js",
     "data:text/css,a", "mailto:a@b.c", "JavaScript:void(0)", "tel:123", "#top",
     "demo.js", "tools/demo.js", "tools/missing.js", "/css/site.css?v=2#x",
     "../../secret.js", "node_modules/lib/a.js", "../context/old.txt",
     "../out/prev.txt", "img/logo.png", "/demo.js", "./js//../demo.js", "?v=1"}

\* where the pack is written: the default, or the argument --output out/dump.txt
DepOutputs == {"/repo/context/code-dump-demo.txt", "/repo/out/dump.txt"}

\* the markup of the k-th reference of a generated tool page
Tag(k, ref) ==
    IF k % 2 = 1 THEN "<link rel=x href=\"" \o ref \o "\">"
    ELSE "<script SRC = ' " \o ref \o "'></script>"

PageText(refs) == Join([k \in 1..Len(refs) |-> Tag(k, refs[k])], "\n")

DepsInit ==
    /\ ExtractIdle
    /\ PackIdle
    /\ RenderIdle
    /\ disk = DepRepo
    /\ output_path \in DepOutputs
    /\ \E n \in 0..MaxRefs :
          \E refs \in [1..n -> RefPool] : dMatches = AssetRefs(PageText(refs))
    /\ dIdx = 1
    /\ dAcc = NoDeps
    /\ dPc = "loop"
    /\ dResult = <<>>

\* one turn of the loop over the matches (lines 322-340)
CollectStep ==
    /\ dPc = "loop"
    /\ dIdx <= Len(dMatches)
    /\ dAcc' = DepStep(disk, dAcc, dMatches[dIdx], DepTarget, RepoRoot)
    /\ dIdx' = dIdx + 1
    /\ UNCHANGED <<dMatches, dPc, dResult, fvars, xvars, pvars, rvars>>

\* the return statement (line 342)
CollectReturn ==
    /\ dPc = "loop"
    /\ dIdx > Len(dMatches)
    /\ dResult' = <<SortedStrings(dAcc.local), SortedStrings(dAcc.external)>>
    /\ dPc' = "done"
    /\ UNCHANGED <<dMatches, dIdx, dAcc, fvars, xvars, pvars, rvars>>

DepsNext == CollectStep \/ CollectReturn

SpecDeps == DepsInit /\ [][DepsNext]_vars

----------------------------------------------------------------------------
(* Runs of the tool, one after another with the same command line, on a    *)
(* repository nothing else changes.                                        *)

\* the runs of one behaviour
MaxRuns == 2

DefaultMaxSections == 3

\* the files every generated repository holds
PackBase ==
    ( "/repo/css/site.css" :> "body {}\n"
   @@ "/repo/index.html"   :> "<a href=\"tools/demo.html\">x</a>\n"
   @@ "/repo/docs/DEMO.md" :> "# DEMO\nmore\n" )

\* the files a generated repository may hold
PackPool ==
    ( "/repo/tools/demo.html" :>
          ("<h2>Demo Tool</h2>\n<script src=\"demo.js\"></script>\n"
           \o "<link href=\"/css/site.css\">\n"
           \o "<script src=\"https://cdn.example.com/lib.js\"></script>\n")
   @@ "/repo/tools/demo.js"   :> "// part of demo.html\n"
   @@ "/repo/tools/Demo.js"   :> "// old copy of demo.html\n"
   @@ "/repo/docs/demo.md"    :> "# Demo\nnotes\n"
   @@ "/repo/docs/guide.md"   :> "# Guide\nsee demo.html\n# Other\nx\n" )

\* the values of --output: absent, inside the repository, outside it
OutputArgs == {None, "out/dump.txt", "docs/demo-pack.md", "/out/pack.txt"}

\* the scripts that start a run
EntryTool == "code-dump-tool.py"

EntryJson == "code-dump-json-tool.py"

\* the keyword arguments the script passes to run
default_tool_of(entry) == IF entry = EntryJson THEN "json-tool" ELSE None

default_output_of(entry) ==
    IF entry = EntryJson THEN "context/code-dump-json-tool.txt" ELSE None

EndsWith(s, p) == Len(s) >= Len(p) /\ SubSeq(s, Len(s) - Len(p) + 1, Len(s)) = p

\* args.tool or default_tool
tool_value(args) == IF args.tool # None THEN args.tool ELSE default_tool_of(args.entry)

\* lines 676-692: the message of the ValueError run raises, None if it raises
\* none
target_error(args, repo_root) ==
    IF args.target # None
    THEN (IF /\ StartsWith(args.target, "/")
             /\ OutsideRoot(ResolveUnder(repo_root, args.target), repo_root)
          THEN "Target must be inside repository root (" \o repo_root \o "): "
                   \o args.target
          ELSE None)
    ELSE IF tool_value(args) = None
    THEN "Missing tool id. Provide --tool or configure a default tool."
    ELSE None

\* lines 676-692 when run raises nothing
target_relative_of(args, repo_root) ==
    IF args.target # None
    THEN (IF StartsWith(args.target, "/")
          THEN Join(RelativeParts(ResolveUnder(repo_root, args.target), repo_root),
                    "/")
          ELSE args.target)
    ELSE IF EndsWith(Lower(tool_value(args)), ".html") THEN tool_value(args)
    ELSE tool_value(args) \o ".html"

\* lines 694-698
tool_slug_of(args) ==
    LET target_name_for_slug ==
          IF tool_value(args) # None THEN tool_value(args)
          ELSE Stem(target_relative_of(args, RepoRoot))
    IN  IF EndsWith(Lower(target_name_for_slug), ".html")
        THEN slugify(Stem(target_name_for_slug))
        ELSE slugify(target_name_for_slug)

\* lines 700-708
output_path_of(args, default_output, repo_root) ==
    LET chosen ==
          IF args.output # None THEN args.output
          ELSE IF default_output # None THEN default_output
          ELSE "context/code-dump-" \o tool_slug_of(args) \o ".txt"
    IN  IF StartsWith(chosen, "/") THEN chosen
        ELSE ResolveUnder(repo_root, chosen)

\* the clock's reading during the n-th run, as strftime formats it
generated_utc(n) == "2026-01-01 00:00:0" \o ToString(n) \o " UTC"

\* a page outside the repository
OutsidePage == "/other/page.html" :> "<h2>Other Page</h2>\n"

\* the values of --target beside tools/demo.html: absent, absolute inside the
\* root, absolute outside it, relative leading outside it
TargetArgs == {None, "/repo/tools/demo.html", "/other/page.html", "../other/page.html"}

\* the values of --tool
ToolArgs == {None, "tools/demo.html", "demo"}

\* lines 719-722: what run prints and returns after generate_context_pack
succeeded(out, target_rel, included_count) ==
    [status  |-> 0,
     printed |-> << "Tool context dump complete: " \o out,
                    "Target page: " \o target_rel,
                    "Files included (full): " \o ToString(included_count) >>,
     error   |-> None,
     escaped |-> FALSE]

\* how a run that raised ends: main catches the exception, prints one line
\* and returns 1; code-dump-json-tool.py calls run bare, so the exception
\* leaves the script and the interpreter prints its traceback and exits with 1
failed(entry, kind, message) ==
    IF entry = EntryTool
    THEN [status  |-> 1,
          printed |-> << "Error: " \o message >>,
          error   |-> kind,
          escaped |-> FALSE]
    ELSE [status  |-> 1,
          printed |-> << "Traceback (most recent call last):",
                         kind \o ": " \o message >>,
          error   |-> kind,
          escaped |-> TRUE]

\* the file-system calls of generate_context_pack in order: exists (594),
\* read_text (597), the walks of lines 612, 617 and 634, mkdir (656) and
\* write_text (657)
pack_effects == << "stat", "read", "walk", "walk", "walk", "mkdir", "write" >>

\* the calls made when line 595 raises
missing_target_effects == << "stat" >>

PackInitRepos ==
    /\ \E kept \in SUBSET DOMAIN PackPool :
          disk = [f \in kept |-> PackPool[f]] @@ PackBase
    /\ \E out \in OutputArgs :
          pArgs = [entry |-> EntryTool, tool |-> None,
                   target |-> "tools/demo.html", output |-> out]

PackInitArgs ==
    /\ disk = OutsidePage @@ PackPool @@ PackBase
    /\ \E entry \in {EntryTool, EntryJson}, tool \in ToolArgs, target \in TargetArgs :
          pArgs = [entry |-> entry, tool |-> tool, target |-> target,
                   output |-> None]

PackInit ==
    /\ ExtractIdle
    /\ DepsIdle
    /\ RenderIdle
    /\ (PackInitRepos \/ PackInitArgs)
    /\ output_path = ""
    /\ pPc = "ready"
    /\ pRun = 0
    /\ pPack = NoPack
    /\ pWritten = <<>>
    /\ pOutcome = NoOutcome
    /\ pEffects = <<>>

\* run (lines 667-722) when the target exists: the pack is discovered, rendered
\* and written to the output path
RunTool ==
    /\ pPc \in {"ready", "done"}
    /\ pRun < MaxRuns
    /\ target_error(pArgs, RepoRoot) = None
    /\ \E out \in {output_path_of(pArgs, default_output_of(pArgs.entry), RepoRoot)},
          target_relative \in {target_relative_of(pArgs, RepoRoot)},
          tool_slug \in {tool_slug_of(pArgs)} :
          /\ Exists(disk, ResolveUnder(RepoRoot, target_relative)) = TRUE
          /\ \E pack \in {discover(disk, RepoRoot, target_relative, tool_slug,
                                    Max({1, DefaultMaxSections}),
                                    Max({1, DefaultContextLines}))} :
             \E output_text \in {build_context_output(disk, RepoRoot, out, pack,
                                                      generated_utc(pRun + 1))} :
                /\ pPack' = pack
                /\ disk' = (out :> output_text) @@ disk
                /\ pWritten' = Append(pWritten, output_text)
                /\ pOutcome' = succeeded(out, pack.target_rel, Len(pack.full_files))
          /\ output_path' = out
    /\ pEffects' = pack_effects
    /\ pRun' = pRun + 1
    /\ pPc' = "done"
    /\ UNCHANGED <<pArgs, xvars, dvars, rvars>>

\* mutant of RunMissingTarget: an empty artifact is left behind
RunMissingTargetWritten ==
    LET out         == output_path_of(pArgs, default_output_of(pArgs.entry), RepoRoot)
        target_file == ResolveUnder(RepoRoot, target_relative_of(pArgs, RepoRoot))
    IN  /\ pPc \in {"ready", "done"}
        /\ pRun < MaxRuns
        /\ target_error(pArgs, RepoRoot) = None
        /\ Exists(disk, target_file) = FALSE
        /\ output_path' = out
        /\ disk' = (out :> "") @@ disk
        /\ pOutcome' = failed(pArgs.entry, "FileNotFoundError",
                              "Unable to find target tool page: " \o target_file)
        /\ pEffects' = << "stat", "mkdir", "write" >>
        /\ pRun' = pRun + 1
        /\ pPc' = "error"
        /\ UNCHANGED <<pArgs, pPack, pWritten, xvars, dvars, rvars>>

\* run when the target is missing: generate_context_pack raises at line 595,
\* nothing is written
RunMissingTarget ==
    LET out         == output_path_of(pArgs, default_output_of(pArgs.entry), RepoRoot)
        target_file == ResolveUnder(RepoRoot, target_relative_of(pArgs, RepoRoot))
    IN  /\ pPc \in {"ready", "done"}
        /\ pRun < MaxRuns
        /\ target_error(pArgs, RepoRoot) = None
        /\ Exists(disk, target_file) = FALSE
        /\ output_path' = out
        /\ pOutcome' = failed(pArgs.entry, "FileNotFoundError",
                              "Unable to find target tool page: " \o target_file)
        /\ pEffects' = missing_target_effects
        /\ pRun' = pRun + 1
        /\ pPc' = "error"
        /\ UNCHANGED <<pArgs, pPack, pWritten, disk, xvars, dvars, rvars>>

\* run when lines 676-692 raise ValueError: generate_context_pack is not called
RunRejected ==
    /\ pPc \in {"ready", "done"}
    /\ pRun < MaxRuns
    /\ target_error(pArgs, RepoRoot) # None
    /\ pOutcome' = failed(pArgs.entry, "ValueError", target_error(pArgs, RepoRoot))
    /\ pEffects' = <<>>
    /\ pRun' = pRun + 1
    /\ pPc' = "error"
    /\ UNCHANGED <<pArgs, pPack, pWritten, fvars, xvars, dvars, rvars>>

PackNext == RunTool \/ RunMissingTarget \/ RunRejected

SpecPack == PackInit /\ [][PackNext]_vars

----------------------------------------------------------------------------
(* Runs of the tool on generated tool pages *)

\* the pieces a generated tool page is made of
MaxFragments == 2

FragmentPool ==
    { "<h2>Demo Tool</h2>\n",
      "<h2> </h2>\n",
      "<H2 class=\"t\">\n Demo\tTool </h2>\n",
      "<title>Demo - Text Utilities</title>\n",
      "<title> - Text Utilities</title>\n",
      "<p>text</p>\n" }

\* the other files of the repository: a page that links to the tool, and a
\* script and a document that have nothing to do with it
TitleRepo ==
    ( "/repo/index.html"    :> "<a href=\"tools/demo.html\">x</a>\n"
   @@ "/repo/lib/other.js"  :> "let x = 1;\n"
   @@ "/repo/docs/notes.md" :> "# Notes\nnothing here\n" )

TitleInit ==
    /\ ExtractIdle
    /\ DepsIdle
    /\ RenderIdle
    /\ \E n \in 0..MaxFragments :
          \E parts \in [1..n -> FragmentPool] :
             disk = ("/repo/tools/demo.html" :> Join(parts, "")) @@ TitleRepo
    /\ pArgs = [entry |-> EntryTool, tool |-> None, target |-> "tools/demo.html",
                output |-> None]
    /\ output_path = ""
    /\ pPc = "ready"
    /\ pRun = 0
    /\ pPack = NoPack
    /\ pWritten = <<>>
    /\ pOutcome = NoOutcome
    /\ pEffects = <<>>

TitleNext == RunTool

SpecTitle == TitleInit /\ [][TitleNext]_vars

----------------------------------------------------------------------------
(* One call of build_context_output, entry by entry, while other processes  *)
(* delete files of the repository                                           *)

RenderArgs == [entry |-> EntryTool, tool |-> None, target |-> "tools/demo.html", output |-> None]

RenderOut == output_path_of(RenderArgs, default_output_of(EntryTool), RepoRoot)

\* the run has discovered its pack (lines 593-640) and enters
\* build_context_output
RenderInit ==
    /\ ExtractIdle
    /\ DepsIdle
    /\ \E kept \in SUBSET {"/repo/tools/demo.js"} :
          disk = [f \in kept |-> PackPool[f]]
                 @@ ("/repo/tools/demo.html" :> PackPool["/repo/tools/demo.html"])
                 @@ PackBase
    /\ output_path = RenderOut
    /\ pArgs = RenderArgs
    /\ pPc = "ready"
    /\ pRun = 0
    /\ \E pack \in {discover(disk, RepoRoot, target_relative_of(RenderArgs, RepoRoot),
                              tool_slug_of(RenderArgs),
                              Max({1, DefaultMaxSections}),
                              Max({1, DefaultContextLines}))} :
          pPack = pack
    /\ pWritten = <<>>
    /\ pOutcome = NoOutcome
    /\ pEffects = << "stat", "read", "walk", "walk", "walk" >>
    /\ rIdx = 1
    /\ rPc = "exists"
    /\ rBlocks = <<>>
    /\ rGone = {}

rFullPath == ResolveUnder(RepoRoot, pPack.full_files[rIdx])

\* another process removes a file of the full-file list during the call
DeleteFile ==
    /\ rPc \in {"exists", "read"}
    /\ \E k \in 1..Len(pPack.full_files) :
          LET gone == ResolveUnder(RepoRoot, pPack.full_files[k])
          IN  /\ gone \in DOMAIN disk
              /\ disk' = [f \in DOMAIN disk \ {gone} |-> disk[f]]
              /\ rGone' = rGone \cup {gone}
    /\ UNCHANGED <<output_path, rIdx, rPc, rBlocks, xvars, dvars, pvars>>

\* lines 542-548: full_path.exists() is asked; a missing entry gets its
\* placeholder and the loop goes on
RenderExists ==
    /\ rPc = "exists"
    /\ rIdx <= Len(pPack.full_files)
    /\ IF rFullPath \in DOMAIN disk
       THEN /\ rPc' = "read"
            /\ UNCHANGED <<rIdx, rBlocks>>
       ELSE /\ rBlocks' = Append(rBlocks, missing_block(pPack.full_files[rIdx]))
            /\ rIdx' = rIdx + 1
            /\ rPc' = "exists"
    /\ UNCHANGED <<fvars, rGone, xvars, dvars, pvars>>

\* lines 550-557: read_text reads the entry that exists() found
RenderRead ==
    /\ rPc = "read"
    /\ rFullPath \in DOMAIN disk
    /\ rBlocks' = Append(rBlocks, present_block(disk[rFullPath], rFullPath,
                                                pPack.full_files[rIdx]))
    /\ rIdx' = rIdx + 1
    /\ rPc' = "exists"
    /\ UNCHANGED <<fvars, rGone, xvars, dvars, pvars>>

\* line 550 when the entry is gone by now: path.read_text (line 150) raises
\* FileNotFoundError, which read_text does not catch; main reports it
RenderReadFails ==
    /\ rPc = "read"
    /\ rFullPath \notin DOMAIN disk
    /\ pOutcome' = failed(pArgs.entry, "FileNotFoundError",
                          "[Errno 2] No such file or directory: '" \o rFullPath \o "'")
    /\ pRun' = pRun + 1
    /\ pPc' = "error"
    /\ rPc' = "error"
    /\ UNCHANGED <<fvars, rIdx, rBlocks, rGone, pArgs, pPack, pWritten, pEffects,
                   xvars, dvars>>

\* lines 559-581 and 656-657, 719-722: the text is completed and written
RenderWrite ==
    /\ rPc = "exists"
    /\ rIdx > Len(pPack.full_files)
    /\ \E output_text \in {render_output(RepoRoot, output_path, pPack,
                                          generated_utc(pRun + 1),
                                          Flatten(rBlocks, 1))} :
          /\ disk' = (output_path :> output_text) @@ disk
          /\ pWritten' = Append(pWritten, output_text)
    /\ pOutcome' = succeeded(output_path, pPack.target_rel, Len(pPack.full_files))
    /\ pEffects' = pEffects \o << "mkdir", "write" >>
    /\ pRun' = pRun + 1
    /\ pPc' = "done"
    /\ rPc' = "done"
    /\ UNCHANGED <<output_path, rIdx, rBlocks, rGone, pArgs, pPack, xvars, dvars>>

RenderNext ==
    DeleteFile \/ RenderExists \/ RenderRead \/ RenderReadFails \/ RenderWrite

SpecRender == RenderInit /\ [][RenderNext]_vars

----------------------------------------------------------------------------
(* Properties of the excerpt extraction *)

xLines == SplitLines(xText)

\* the 0-based indices of the lines of the file that match a pattern
xHits == {idx \in 0..(Len(xLines) - 1) : AnySearch(xPatterns, xLines[idx + 1])}

xHeads == heading_indices(xLines)

\* the headings (by rank in the file) whose section matches a pattern
xMatching ==
    {k \in 1..Len(xHeads) :
        AnySearch(xPatterns, section_text(xLines, xHeads, k))}

\* the run extracted line windows: the file is no Markdown file, or none of
\* its heading sections matches
xWindowMode == Lower(Suffix(xPath)) # ".md" \/ xMatching = {}

xSpans == [k \in 1..Len(xResult) |-> <<xResult[k].start_line, xResult[k].end_line>>]

\* the window-merge scenario: 50 lines, hits at indices 5, 7 and 30,
\* radius 10, a cap of at least 2
MergeScenario ==
    /\ xPc = "done"
    /\ Len(xLines) = LongLines
    /\ xHits = {5, 7, 30}
    /\ xCtx = DefaultContextLines
    /\ xMax >= 2

\* C4 as stated: in the window-merge scenario the windows are lines 1-17 and
\* lines 20-41.
C4_WindowsAsStated == MergeScenario => xSpans = << <<1, 17>>, <<20, 41>> >>

\* C4, amended: in the window-merge scenario extract_windows returns exactly
\* two windows, covering the 1-based lines 1-18 and 21-41.
C4_MergedWindows == MergeScenario => xSpans = << <<1, 18>>, <<21, 41>> >>

C4_Witness == MergeScenario /\ Len(xResult) = 2

\* C5: the windows of extract_windows ascend, lie within lines 1..N, and two
\* consecutive windows leave at least one line between them.
C5_WindowsDisjoint ==
    (xPc = "done" /\ xWindowMode) =>
        /\ \A k \in 1..Len(xResult) :
              /\ 1 <= xResult[k].start_line
              /\ xResult[k].start_line <= xResult[k].end_line
              /\ xResult[k].end_line <= Len(xLines)
        /\ \A k \in 1..(Len(xResult) - 1) :
              xResult[k].end_line + 1 < xResult[k + 1].start_line

C5_Witness ==
    /\ xPc = "done"
    /\ xWindowMode
    /\ Len(xLines) <= MaxLines
    /\ Len(xResult) = 2
    /\ xResult[1].end_line + 2 = xResult[2].start_line

xUncapped ==
    extract_text_sections(xPath, xText, xPatterns, Len(xLines) + 1, xCtx)

\* C7: a run returns at most max_sections excerpts, in both modes: the first
\* max_sections of the qualifying sections, or of the merged windows.
C7_SectionCap ==
    xPc = "done" =>
        /\ Len(xResult) <= xMax
        /\ xResult = Take(xUncapped, xMax)

C7_Witness ==
    /\ xPc = "done"
    /\ xWindowMode
    /\ Len(xUncapped) > xMax
    /\ Len(xResult) = xMax

----------------------------------------------------------------------------
(* Properties of the dependency collection *)

\* the references the loop has handled so far, as the loop reads them
dHandled == {Strip(dMatches[k]) : k \in 1..(dIdx - 1)}

\* the reference starts, in any letter case, with http://, https:// or //
ExternalForm(r) ==
    \E prefix \in {"http://", "https://", "//"} : MatchAtCI(r, 1, prefix)

\* the reference starts, in any letter case, with data:, mailto:,
\* javascript:, tel: or #
NonFileForm(r) ==
    \E prefix \in {"data:", "mailto:", "javascript:", "tel:", "#"} :
        MatchAtCI(r, 1, prefix)

Elems(seq) == {seq[k] : k \in 1..Len(seq)}

\* C8: a reference of external form is put in the external set, adds nothing
\* to the local set, and is never handed to resolve_target_reference.
C8_ExternalNeverResolved ==
    \A r \in dHandled :
        ExternalForm(r) =>
            /\ r \in dAcc.external
            /\ r \notin dAcc.local
            /\ <<r, "local">> \notin dAcc.placed
            /\ r \notin dAcc.resolved
            /\ dPc = "done" => (r \in Elems(dResult[2]) /\ r \notin Elems(dResult[1]))

C8_Witness ==
    /\ dPc = "done"
    /\ "HTTP://x.org/a.css" \in Elems(dResult[2])
    /\ "tools/demo.js" \in Elems(dResult[1])
    /\ dAcc.resolved # {}

\* C9: a non-file reference adds to neither set and is in neither result.
C9_NonFileDropped ==
    \A r \in dHandled :
        NonFileForm(r) =>
            /\ r \notin dAcc.external
            /\ r \notin dAcc.local
            /\ \A set \in {"external", "local"} : <<r, set>> \notin dAcc.placed
            /\ dPc = "done" => (r \notin Elems(dResult[1]) /\ r \notin Elems(dResult[2]))

C9_Witness ==
    /\ dPc = "done"
    /\ "JavaScript:void(0)" \in dHandled
    /\ dResult = << <<"css/site.css">>, <<>> >>

\* the absolute path of an entry of the local-dependency set
LocalFile(p) == IF StartsWith(p, "/") THEN p ELSE ResolveUnder(RepoRoot, p)

\* the path has a component naming version-control metadata, a dependency or
\* cache directory, or a virtual environment
InIgnoredDir(path) ==
    \E k \in 1..Len(Parts(path)) : Parts(path)[k] \in IGNORE_DIRS

\* the path lies in the directory the pack is written to
InOutputDir(path) == IsPrefix(Parts(Parent(output_path)), Parts(path))

\* C10 as stated: no local dependency lies outside the repository root, is
\* missing on disk, or sits inside an ignored directory or inside the directory
\* the dump output is written to.
C10_LocalDependenciesKept ==
    \A p \in dAcc.local :
        /\ ~OutsideRoot(LocalFile(p), RepoRoot)
        /\ Exists(disk, LocalFile(p))
        /\ ~InIgnoredDir(LocalFile(p))
        /\ ~InOutputDir(LocalFile(p))

\* what the code keeps of C10: should_skip_path knows the output directory
\* only by the name of the default one, context
C10_LocalDependenciesOutsideContext ==
    \A p \in dAcc.local :
        /\ ~OutsideRoot(LocalFile(p), RepoRoot)
        /\ Exists(disk, LocalFile(p))
        /\ ~InIgnoredDir(LocalFile(p))
        /\ "context" \notin Elems(Parts(p))

----------------------------------------------------------------------------
(* Properties of the runs of the tool *)

\* the 1-based line of the artifact that holds the timestamp (lines.append at
\* line 509 is the seventh)
GeneratedLine == 7

\* the paths add_unique is called with, in the order of the calls
pCandidates ==
    <<pPack.target_rel>> \o pPack.local_dependencies \o pPack.incoming_refs
        \o pPack.direct_docs

\* the calls whose path no earlier call had, letter case ignored
pFirstCalls ==
    {i \in 1..Len(pCandidates) :
        \A j \in 1..(i - 1) : Lower(pCandidates[j]) # Lower(pCandidates[i])}

\* C1: the full-file list of a run has no two entries equal ignoring letter
\* case; it is the target, the local dependencies, the incoming references and
\* the direct docs in that order, each path at its first occurrence; a file
\* that is a dependency and an incoming reference is listed once, among the
\* dependencies.
C1_FullFilesDeduplicated ==
    pPc = "done" =>
        LET full   == pPack.full_files
            firsts == SortedSeq(pFirstCalls)
        IN  /\ \A i, j \in 1..Len(full) :
                  i # j => Lower(full[i]) # Lower(full[j])
            /\ full = [k \in 1..Len(firsts) |-> pCandidates[firsts[k]]]
            /\ \A d \in Elems(pPack.local_dependencies)
                          \cap Elems(pPack.incoming_refs) :
                  /\ Cardinality({k \in 1..Len(full) : full[k] = d}) = 1
                  /\ \A k \in 1..Len(full) :
                        full[k] = d => k <= 1 + Len(pPack.local_dependencies)

\* a run found tools/demo.js as a dependency and as an incoming reference, and
\* tools/Demo.js as an incoming reference that the list does not repeat
C1_Witness ==
    /\ pPc = "done"
    /\ "tools/demo.js" \in Elems(pPack.local_dependencies)
    /\ "tools/demo.js" \in Elems(pPack.incoming_refs)
    /\ "tools/Demo.js" \in Elems(pPack.incoming_refs)
    /\ "tools/Demo.js" \notin Elems(pPack.full_files)
    /\ pPack.full_files[3] = "tools/demo.js"

\* C2: no path is both an entry of the full-file list and the owning file of
\* an excerpt of the same bundle.
C2_NoFullFileExcerpted ==
    pPc = "done" =>
        \A k \in 1..Len(pPack.excerpts) :
            pPack.excerpts[k].rel_path \notin Elems(pPack.full_files)

\* a bundle with excerpts whose full-file list holds a document that matches
\* the patterns
C2_Witness ==
    /\ pPc = "done"
    /\ "docs/DEMO.md" \in Elems(pPack.full_files)
    /\ AnySearch(DemoPatterns, disk["/repo/docs/DEMO.md"])
    /\ \E k \in 1..Len(pPack.excerpts) : pPack.excerpts[k].rel_path = "docs/demo.md"

\* the position of the line break that ends the k-th line of an artifact
LineEnd(text, k) ==
    LET breaks == Positions(text, "\n")
    IN  CHOOSE p \in breaks : Cardinality({q \in breaks : q < p}) = k - 1

\* the two artifacts have the same lines but for the timestamp line
SameButGenerated(first, second) ==
    /\ SubSeq(first, 1, LineEnd(first, GeneratedLine - 1))
          = SubSeq(second, 1, LineEnd(second, GeneratedLine - 1))
    /\ SubSeq(first, LineEnd(first, GeneratedLine), Len(first))
          = SubSeq(second, LineEnd(second, GeneratedLine), Len(second))

\* C3 as stated: two runs in succession with the same arguments, on a
\* repository nothing else changes, write artifacts that are byte-identical
\* except for the timestamp line, whatever the output path.
C3_Idempotent ==
    Len(pWritten) >= 2 => SameButGenerated(pWritten[1], pWritten[2])

\* the walk of the repository never reaches the output path: it lies outside
\* the root, or below a directory named context
OutputUnscanned ==
    \/ OutsideRoot(output_path, RepoRoot)
    \/ "context" \in Elems(RelativeParts(output_path, RepoRoot))

\* the runs are idempotent when the walk cannot reach the output path
C3_IdempotentWhenUnscanned ==
    (Len(pWritten) >= 2 /\ OutputUnscanned)
        => SameButGenerated(pWritten[1], pWritten[2])

----------------------------------------------------------------------------
(* Properties of the path resolver *)

\* the reference without its fragment and query suffix
Unsuffixed(r) ==
    LET cuts == {i \in 1..Len(r) : Char(r, i) \in {"#", "?"}}
    IN  Strip(IF cuts = {} THEN r ELSE SubSeq(r, 1, Min(cuts) - 1))

\* the file or directory the path names below the directory, if there is one
Below(dir, path) ==
    IF Exists(disk, ResolveUnder(dir, path)) THEN ResolveUnder(dir, path) ELSE None

\* C11: a reference handed to the resolver, its suffix stripped, resolves
\* against the repository root only when it starts with a slash; otherwise to
\* the candidate below the directory of the target when that exists, to the
\* candidate below the root only when it does not, and to nothing when neither
\* exists.  A reference that is empty once stripped resolves to nothing.
C11_ResolutionOrder ==
    \A call \in dAcc.answers :
        LET path == Unsuffixed(call[1])
        IN  IF path = "" THEN call[2] = None
            ELSE IF StartsWith(path, "/")
            THEN call[2] = Below(RepoRoot, LStripSlash(path))
            ELSE IF Below(Parent(DepTarget), path) # None
            THEN call[2] = Below(Parent(DepTarget), path)
            ELSE call[2] = Below(RepoRoot, path)

\* the page referred to demo.js, which exists below tools/ and below the root,
\* and to tools/demo.js, which exists below the root only
C11_Witness ==
    /\ dPc = "done"
    /\ <<"demo.js", "/repo/tools/demo.js">> \in dAcc.answers
    /\ <<"tools/demo.js", "/repo/tools/demo.js">> \in dAcc.answers
    /\ Exists(disk, "/repo/demo.js")

----------------------------------------------------------------------------
(* Properties of failing runs *)

\* the file the arguments of the run name as the target
pTargetFile == ResolveUnder(RepoRoot, target_relative_of(pArgs, RepoRoot))

\* the calls that scan the repository or touch the artifact
ScanOrWrite == {"walk", "mkdir", "write"}

\* C12: a run whose target file does not exist fails with the missing-target
\* error before any walk of the repository, and leaves the file system as it
\* was: no artifact, no directory for it.
C12_MissingTargetAborts ==
    [][ ( /\ pRun' = pRun + 1
          /\ target_error(pArgs, RepoRoot) = None
          /\ ~Exists(disk, pTargetFile) )
        => ( /\ pOutcome'.error = "FileNotFoundError"
             /\ pOutcome'.status # 0
             /\ \A k \in 1..Len(pEffects') : pEffects'[k] \notin ScanOrWrite
             /\ disk' = disk
             /\ pWritten' = pWritten ) ]_vars

\* a run of code-dump-tool.py on a repository without tools/demo.html has
\* failed, and the output path holds no file
C12_Witness ==
    /\ pPc = "error"
    /\ pArgs.target = "tools/demo.html"
    /\ pOutcome.error = "FileNotFoundError"
    /\ pOutcome.printed = << "Error: Unable to find target tool page: /repo/tools/demo.html" >>
    /\ output_path \notin DOMAIN disk

\* the value of --target names a path outside the repository root
TargetOutside ==
    /\ pArgs.target # None
    /\ OutsideRoot(ResolveUnder(RepoRoot, pArgs.target), RepoRoot)

\* C13 as stated: every --target value, absolute or relative, that names a
\* path outside the root is rejected as a configuration error before any scan,
\* writes no artifact and exits non-zero.
C13_OutsideTargetRejected ==
    (pRun >= 1 /\ TargetOutside) =>
        /\ pOutcome.status # 0
        /\ pOutcome.error = "ValueError"
        /\ \A k \in 1..Len(pEffects) : pEffects[k] \notin ScanOrWrite
        /\ pWritten = <<>>

\* an absolute --target outside the root is rejected so
C13_AbsoluteOutsideRejected ==
    (pRun >= 1 /\ TargetOutside /\ StartsWith(pArgs.target, "/")) =>
        /\ pOutcome.status # 0
        /\ pOutcome.error = "ValueError"
        /\ pEffects = <<>>
        /\ pWritten = <<>>

\* C18 as stated: whatever script started it, a run that fails ends with one
\* line Error: ..., a non-zero exit status and no exception leaving the script.
C18_FailuresCaught ==
    pPc = "error" =>
        /\ pOutcome.escaped = FALSE
        /\ pOutcome.status # 0
        /\ Len(pOutcome.printed) = 1
        /\ StartsWith(pOutcome.printed[1], "Error: ")

\* the failures of code-dump-tool.py end so
C18_MainCatchesFailures ==
    (pPc = "error" /\ pArgs.entry = EntryTool) =>
        /\ pOutcome.escaped = FALSE
        /\ pOutcome.status # 0
        /\ Len(pOutcome.printed) = 1
        /\ StartsWith(pOutcome.printed[1], "Error: ")

----------------------------------------------------------------------------
(* Properties of the rendering while files are deleted *)

\* the full-file entries whose file was deleted during the call
rDeletedEntries ==
    {k \in 1..Len(pPack.full_files) :
        ResolveUnder(RepoRoot, pPack.full_files[k]) \in rGone}

\* C14: when a file of the full-file list is deleted at any moment between
\* its discovery and its rendering, the run still succeeds: the artifact is
\* written, the entry is its BEGIN FILE marker, the line
\* "Missing at dump time." and its END FILE marker, and every other entry is
\* rendered normally
C14_DeletedFileTolerated ==
    /\ rPc # "error"
    /\ rPc = "done" =>
          /\ pOutcome.status = 0
          /\ output_path \in DOMAIN disk
          /\ \A k \in 1..Len(pPack.full_files) :
                rBlocks[k] = IF k \in rDeletedEntries
                             THEN missing_block(pPack.full_files[k])
                             ELSE file_block(disk, RepoRoot, pPack.full_files[k])

\* what does hold: an entry that exists() finds missing is rendered as the
\* placeholder, and a run that reaches the end writes the artifact
C14_MissingAtExistsTolerated ==
    rPc = "done" =>
       /\ pOutcome.status = 0
       /\ output_path \in DOMAIN disk
       /\ Len(rBlocks) = Len(pPack.full_files)
       /\ \A k \in 1..Len(pPack.full_files) :
             \/ rBlocks[k] = missing_block(pPack.full_files[k]) /\ k \in rDeletedEntries
             \/ rBlocks[k] = file_block(PackPool @@ PackBase, RepoRoot,
                                         pPack.full_files[k])

----------------------------------------------------------------------------
(* Properties of the numbered content of an excerpt *)

\* the numbered lines build_context_output appends for an excerpt
\* (lines 572-576)
NumberedLines(excerpt) ==
    LET numbered_excerpt == get_numbered_content(excerpt.content, excerpt.start_line)
    IN  IF numbered_excerpt = "" THEN <<>> ELSE SplitOn(numbered_excerpt, "\n")

\* C15: the numbered content of every excerpt, of either extraction mode,
\* agrees with the line range of its marker: it has exactly
\* end_line - start_line + 1 numbered lines, the first numbered start_line and
\* the last numbered end_line
C15_NumberedContentMatchesRange ==
    xPc = "done" =>
       \A k \in 1..Len(xResult) :
          LET shown == NumberedLines(xResult[k])
              first == xResult[k].start_line
              last  == xResult[k].end_line
          IN  /\ Len(shown) = last - first + 1
              /\ StartsWith(shown[1], Pad4(first) \o ": ")
              /\ StartsWith(shown[Len(shown)], Pad4(last) \o ": ")

\* what does hold: the numbered lines count up from start_line and never pass
\* end_line
C15_NumberedFromStart ==
    xPc = "done" =>
       \A k \in 1..Len(xResult) :
          LET shown == NumberedLines(xResult[k])
          IN  /\ Len(shown) <= xResult[k].end_line - xResult[k].start_line + 1
              /\ \A i \in 1..Len(shown) :
                    StartsWith(shown[i], Pad4(xResult[k].start_line + i - 1) \o ": ")

----------------------------------------------------------------------------
(* Properties of the text before the first heading *)

\* the lines of the file before its first heading, as one text
xPreamble ==
    IF Len(xHeads) = 0 THEN Join(xLines, "\n")
    ELSE Join(SubSeq(xLines, 1, xHeads[1]), "\n")

\* the file is a Markdown file extracted by heading sections whose text
\* before the first heading matches a pattern
xPreambleMatches ==
    /\ Lower(Suffix(xPath)) = ".md"
    /\ xMatching # {}
    /\ xHeads[1] > 0
    /\ AnySearch(xPatterns, xPreamble)

\* C16: in heading-section extraction, matching text that precedes the first
\* heading is emitted as a section labelled "Untitled section", like any other
\* qualifying section
C16_PreambleEmitted ==
    (xPc = "done" /\ xPreambleMatches) =>
       \E k \in 1..Len(xResult) :
          /\ xResult[k].label = "Section: Untitled section"
          /\ xResult[k].start_line = 1
          /\ xResult[k].end_line = xHeads[1]

\* what does hold: every section of the result starts at a heading line and
\* none is labelled "Untitled section"
C16_SectionsStartAtHeadings ==
    (xPc = "done" /\ Lower(Suffix(xPath)) = ".md" /\ xMatching # {}) =>
       \A k \in 1..Len(xResult) :
          /\ IsHeading(xLines[xResult[k].start_line])
          /\ xResult[k].label # "Section: Untitled section"

----------------------------------------------------------------------------
(* Properties of the extension of a dependency *)

\* the answers of the resolver that name a file inside the repository and
\* outside the ignored directories, the output directory among them
dResolvedInside ==
    {call \in dAcc.answers :
        /\ call[2] # None
        /\ ~OutsideRoot(call[2], RepoRoot)
        /\ ~InIgnoredDir(call[2])
        /\ ~InOutputDir(call[2])}

\* C17: every reference the resolver resolves to an existing file inside the
\* repository and outside the ignored directories is, by its
\* repository-relative path, in the returned local-dependency set, whatever
\* the extension of the file
C17_ResolvedDependenciesKept ==
    dPc = "done" =>
       \A call \in dResolvedInside :
          to_repo_relative(call[2], RepoRoot) \in Elems(dResult[1])

\* what does hold: such a file is returned exactly when its extension is one
\* of TEXT_EXTENSIONS and no directory on its path is named context
C17_TextDependenciesKept ==
    dPc = "done" =>
       \A call \in dResolvedInside :
          to_repo_relative(call[2], RepoRoot) \in Elems(dResult[1])
             <=> /\ Lower(Suffix(call[2])) \in TEXT_EXTENSIONS
                 /\ "context" \notin Elems(Parts(call[2]))

----------------------------------------------------------------------------
(* Properties of the files whose text matches *)

\* the full text of the file matches a pattern (line 445), so
\* collect_reference_excerpts extracts its sections
xContentMatches == AnySearch(xPatterns, xText)

\* C19: a documentation file whose full text matches a pattern contributes
\* between 1 and max_sections excerpts, also when the match spans more than one
\* line
C19_MatchingFileExcerpted ==
    (xPc = "done" /\ xContentMatches) =>
       (Len(xResult) >= 1 /\ Len(xResult) <= xMax)

\* what does hold: a file of which one line matches contributes between 1 and
\* max_sections excerpts, and no file more than max_sections
C19_MatchingLineExcerpted ==
    xPc = "done" =>
       /\ Len(xResult) <= xMax
       /\ xHits # {} => Len(xResult) >= 1

----------------------------------------------------------------------------
(* Properties of the exclusion of the full files from the excerpts *)

\* C20: the exclusion of the full files from excerpting ignores letter case,
\* as the deduplication of the full-file list does: no excerpt is owned by a
\* file whose path equals an entry of the full-file list ignoring letter case
C20_ExclusionIgnoresCase ==
    pPc = "done" =>
        \A k \in 1..Len(pPack.excerpts) :
            \A i \in 1..Len(pPack.full_files) :
                Lower(pPack.excerpts[k].rel_path) # Lower(pPack.full_files[i])

----------------------------------------------------------------------------
(* Properties of the derived title *)

\* the text holds one of the five things that refer to the tool: its path, its
\* file name, the identifier association of its slug, its stem, its title
RefersToTool(text) ==
    \/ \E i \in 1..Len(text) : MatchAtCI(text, i, pPack.target_rel)
    \/ \E i \in 1..Len(text) : MatchAtCI(text, i, PathName(pPack.target_rel))
    \/ \E i \in 1..Len(text) : IdMatchAt(text, i, pPack.tool_slug)
    \/ \E i \in 1..Len(text) : MatchAtCI(text, i, Stem(pPack.target_rel))
    \/ pPack.tool_title # ""
          /\ \E i \in 1..Len(text) : MatchAtCI(text, i, pPack.tool_title)

\* the files the run reports as incoming references or as owners of excerpts
pReported ==
    Elems(pPack.incoming_refs)
        \cup {pPack.excerpts[k].rel_path : k \in 1..Len(pPack.excerpts)}

\* the patterns of the run
pPatterns ==
    build_reference_patterns(pPack.target_rel, pPack.tool_slug, pPack.tool_title,
                             Stem(pPack.target_rel))

\* C21: whatever the text of the target, the derived title is not empty, no
\* pattern of the run matches the empty string, and no file that holds none of
\* the path, file name, slug identifier association, stem and title of the
\* target is reported as an incoming reference or as the source of an excerpt
C21_TitleNeverEmpty ==
    pRun = 1 =>
       /\ pPack.tool_title # ""
       /\ ~AnySearch(pPatterns, "")
       /\ \A rel \in pReported : RefersToTool(disk[ResolveUnder(RepoRoot, rel)])

\* what does hold: a run whose title is not empty reports only files that
\* refer to the tool, and the title is empty only when the first h2 element
\* of the page holds nothing but whitespace
C21_NonEmptyTitleSound ==
    pRun = 1 =>
       /\ pPack.tool_title # "" =>
             /\ ~AnySearch(pPatterns, "")
             /\ \A rel \in pReported : RefersToTool(disk[ResolveUnder(RepoRoot, rel)])
       /\ pPack.tool_title = "" =>
             LET page == disk["/repo/tools/demo.html"]
                 h2s  == {i \in 1..Len(page) : H2Match(page, i)}
             IN  h2s # {} /\ H2Title(page, Min(h2s)) = ""

====
